---- MODULE Spec2Model ----
(***************************************************************************)
(* A model of tree-xml's Node: the stack-based reduction of a quick-xml    *)
(* event stream into a tree (Node::read_from), the depth-first flattening  *)
(* of a tree into writer calls (Node::write_to), and the NodeBuilder.      *)
(*                                                                         *)
(* Strings and byte strings are sequences of one-character strings, so     *)
(* that trimming, escaping and UTF-8 validation are computed and not       *)
(* assumed.                                                                *)
(***************************************************************************)
EXTENDS Integers, Sequences, FiniteSets, TLC

VARIABLES
    source,      \* the events the Reader delivers, in document order
    pos,         \* number of events read_from has taken from the Reader
    node_stack,  \* read_from's node_stack (back = last element)
    result,      \* read_from's return value: NotCalled, Running, Ok(node) or Err(e)
    log,         \* whether the crate is built with feature "log"
    self,        \* the node handed to write_to (NoNode until there is one)
    sink,        \* the calls the Writer's sink has received, in order
    written,     \* write_to's return value: NotCalled, Ok(unit) or Err(e)
    round,       \* which read_from run this is: 1 = the input, 2 = the re-parse
    builder,     \* the NodeBuilder of the caller: Ok(builder), Err(e) or Moved
    chain,       \* the calls made on the builder so far, where they are recorded
    query        \* the last accessor call on self and what it returned

vars ==
    <<source, pos, node_stack, result, log, self, sink, written, round, builder,
      chain, query>>

(***************************************************************************)
(* Bounds of the model.                                                    *)
(***************************************************************************)
\* longest enumerated event source (Eof follows the last event)
MaxEvents == 4
\* the sink calls among which one may fail
MaxFailAt == 4

(***************************************************************************)
(* Byte strings.                                                           *)
(***************************************************************************)
\* a byte that is not valid UTF-8
InvalidByte == "0xFF"

\* characters str::trim removes
WhiteSpace == {" ", "\t", "\n", "\r"}

\* core::result::Result
Ok(v) == [tag |-> "Ok", val |-> v]
Err(e) == [tag |-> "Err", err |-> e]
Running == [tag |-> "Running"]
\* of a function the caller has not called
NotCalled == [tag |-> "NotCalled"]
\* a value that has been moved out of (consumed by a call taking self)
Moved == [tag |-> "Moved"]

IsOk(r) == r.tag = "Ok"
IsErr(r) == r.tag = "Err"

\* str::from_utf8: fails on any invalid byte, otherwise the same characters
from_utf8(bytes) ==
    IF \E i \in 1..Len(bytes) : bytes[i] = InvalidByte
    THEN Err("Utf8Error")
    ELSE Ok(bytes)

RECURSIVE trim_start(_)
trim_start(s) ==
    IF s # <<>> /\ Head(s) \in WhiteSpace THEN trim_start(Tail(s)) ELSE s

RECURSIVE trim_end(_)
trim_end(s) ==
    IF s # <<>> /\ s[Len(s)] \in WhiteSpace
    THEN trim_end(SubSeq(s, 1, Len(s) - 1))
    ELSE s

\* str::trim
trim(s) == trim_end(trim_start(s))

(***************************************************************************)
(* Node, and the conversion of a start tag into a Node.                    *)
(***************************************************************************)
\* The keys attributes are drawn from, in one fixed order.
AttrKeys == << <<"j">>, <<"k">> >>

\* RandomState: the hidden hasher state of a HashMap, which fixes the order
\* in which the map iterates. Two hashers give both orders of two keys.
Hashers == {"h1", "h2"}

\* HashMap::new: no entries; the hasher is whatever RandomState::new() drew
NewMap(hasher) == [entries |-> [k \in {} |-> <<>>], hasher |-> hasher]

\* HashMap::insert: a later value for a key replaces the earlier one
Insert(m, k, v) ==
    [m EXCEPT !.entries =
        [x \in (DOMAIN m.entries) \cup {k} |-> IF x = k THEN v ELSE m.entries[x]]]

\* HashMap::get / contains_key
contains_key(m, k) == k \in DOMAIN m.entries
get(m, k) == m.entries[k]

Reverse(seq) == [i \in 1..Len(seq) |-> seq[Len(seq) + 1 - i]]

\* HashMap::iter: every entry once, in the order the hasher fixes
iter(m) ==
    LET InMap(k) == k \in DOMAIN m.entries
        keys == SelectSeq(IF m.hasher = "h1" THEN AttrKeys ELSE Reverse(AttrKeys), InMap)
    IN  [i \in 1..Len(keys) |-> [key |-> keys[i], value |-> m.entries[keys[i]]]]

\* struct Node
MkNode(name, content, attributes, childs) ==
    [name |-> name, content |-> content, attributes |-> attributes, childs |-> childs]

\* the value of `self` before any node is handed to the writer
NoNode == [none |-> TRUE]

\* no accessor has been called
NoQuery == [op |-> "none"]

\* The chain of calls on a builder: NodeBuilder::new and the calls that
\* followed it, each with its argument. It is recorded for the chains of at
\* most MaxCalls calls after new, and not recorded where the calls are not
\* counted.
Call(op, arg) == [op |-> op, arg |-> arg]
NotRecorded == [recorded |-> FALSE, calls |-> <<>>]
Recorded(calls) == [recorded |-> TRUE, calls |-> calls]

\* a bug: the attributes are iterated with the check for duplicates off
attributes_iter_unchecked(raw) == [i \in 1..Len(raw) |-> Ok(raw[i])]

\* quick-xml's BytesStart::attributes(): one item per raw attribute; the
\* iterator checks keys for uniqueness and yields an error for a key that
\* already occurred in the same tag
attributes_iter(raw) ==
    [i \in 1..Len(raw) |->
        IF \E j \in 1..(i - 1) : raw[j].key = raw[i].key
        THEN Err("AttributeXmlError")
        ELSE Ok(raw[i])]

\* the closure mapped over the attributes in try_from
attribute_pair(res) ==
    IF IsErr(res) THEN res
    ELSE LET key == from_utf8(res.val.key)
             value == from_utf8(res.val.value)
         IN  IF IsErr(key) THEN key
             ELSE IF IsErr(value) THEN value
             ELSE Ok([key |-> key.val, value |-> value.val])

\* collect::<Result<HashMap<_, _>>>: stops at the first error
RECURSIVE collect(_, _, _)
collect(items, i, map) ==
    IF i > Len(items) THEN Ok(map)
    ELSE LET r == attribute_pair(items[i])
         IN  IF IsErr(r) THEN r
             ELSE collect(items, i + 1, Insert(map, r.val.key, r.val.value))

\* impl TryFrom<&BytesStart> for Node
try_from(value, hasher) ==
    LET name == from_utf8(value.name)
        attributes == collect(attributes_iter(value.attrs), 1, NewMap(hasher))
    IN  IF IsErr(name) THEN name
        ELSE IF IsErr(attributes) THEN attributes
        ELSE Ok(MkNode(name.val, <<>>, attributes.val, <<>>))

(***************************************************************************)
(* Events of the Reader.                                                   *)
(***************************************************************************)
Attr(k, v) == [key |-> k, value |-> v]
Start(name, attrs) == [type |-> "Start", name |-> name, attrs |-> attrs]
Empty(name, attrs) == [type |-> "Empty", name |-> name, attrs |-> attrs]
End(name) == [type |-> "End", name |-> name]
Text(bytes) == [type |-> "Text", bytes |-> bytes]
Comment == [type |-> "Comment"]
Eof == [type |-> "Eof"]
\* the Reader returns Err(e): a syntax error of the document
SyntaxError == [type |-> "Err"]

\* reader.read_event_into(&mut buf): the next event, Eof at the end of input
read_event(src, p) == IF p < Len(src) THEN src[p + 1] ELSE Eof

(***************************************************************************)
(* Node::read_from, one action per arm of the match.                       *)
(***************************************************************************)
Reading == result = Running

\* The hashers worth telling apart for a tag: the hasher of a map of fewer
\* than two entries cannot be observed.
HashersFor(ev) == IF Len(ev.attrs) >= 2 THEN Hashers ELSE {"h1"}

\* VecDeque::pop_back / push_back / back_mut
pop_back(stack) == SubSeq(stack, 1, Len(stack) - 1)
back(stack) == stack[Len(stack)]
push_back(stack, n) == Append(stack, n)

\* a bug: the new child is put before its elder siblings
push_child_front(stack, node) ==
    push_back(pop_back(stack),
              [back(stack) EXCEPT !.childs = <<node>> \o @])

\* parent.childs.push(node) on the node at the back of the stack
push_child(stack, node) ==
    push_back(pop_back(stack),
              [back(stack) EXCEPT !.childs = Append(@, node)])

\* Ok(Event::Start(ref start))
StartArm(stack, ev, hasher) ==
    LET node == try_from(ev, hasher)
    IN  IF IsErr(node) THEN [stack |-> stack, ret |-> node]
        ELSE [stack |-> push_back(stack, node.val), ret |-> Running]

\* a bug: the self-closing tag is left open on the stack, like a start tag
EmptyArm_push(stack, ev, hasher) ==
    LET node == try_from(ev, hasher)
    IN  IF IsErr(node) THEN [stack |-> stack, ret |-> node]
        ELSE [stack |-> push_back(stack, node.val), ret |-> Running]

\* Ok(Event::Empty(ref start))
EmptyArm(stack, ev, hasher) ==
    LET node == try_from(ev, hasher)
    IN  IF IsErr(node) THEN [stack |-> stack, ret |-> node]
        ELSE IF stack # <<>>
             THEN [stack |-> push_child(stack, node.val), ret |-> Running]
             ELSE [stack |-> stack, ret |-> Ok(node.val)]

\* a bug: an end tag without a start tag ends the parse with an error
EndArm_strict(stack, ev, logging) ==
    IF stack # <<>>
    THEN LET node == back(stack)
             rest == pop_back(stack)
         IN  IF rest # <<>>
             THEN [stack |-> push_child(rest, node), ret |-> Running]
             ELSE [stack |-> rest, ret |-> Ok(node)]
    ELSE [stack |-> stack, ret |-> Err("XmlError")]

\* a bug: the node an end tag closes is not handed to the node below it
EndArm_drop(stack, ev, logging) ==
    IF stack # <<>>
    THEN LET node == back(stack)
             rest == pop_back(stack)
         IN  IF rest # <<>>
             THEN [stack |-> rest, ret |-> Running]
             ELSE [stack |-> rest, ret |-> Ok(node)]
    ELSE IF logging /\ IsErr(from_utf8(ev.name))
         THEN [stack |-> stack, ret |-> from_utf8(ev.name)]
         ELSE [stack |-> stack, ret |-> Running]

\* a bug: an end tag of another name than the open node is refused
EndArm_checked(stack, ev, logging) ==
    IF stack # <<>>
    THEN LET node == back(stack)
             rest == pop_back(stack)
         IN  IF ev.name # node.name
             THEN [stack |-> stack, ret |-> Err("ParseNodeError")]
             ELSE IF rest # <<>>
                  THEN [stack |-> push_child(rest, node), ret |-> Running]
                  ELSE [stack |-> rest, ret |-> Ok(node)]
    ELSE IF logging /\ IsErr(from_utf8(ev.name))
         THEN [stack |-> stack, ret |-> from_utf8(ev.name)]
         ELSE [stack |-> stack, ret |-> Running]

\* Ok(Event::End(ref end))
EndArm(stack, ev, logging) ==
    IF stack # <<>>
    THEN LET node == back(stack)
             rest == pop_back(stack)
         IN  IF rest # <<>>
             THEN [stack |-> push_child(rest, node), ret |-> Running]
             ELSE [stack |-> rest, ret |-> Ok(node)]
    ELSE \* error!(.., str::from_utf8(end.name().as_ref())?) under cfg(feature = "log")
         IF logging /\ IsErr(from_utf8(ev.name))
         THEN [stack |-> stack, ret |-> from_utf8(ev.name)]
         ELSE [stack |-> stack, ret |-> Running]

\* a bug: text that follows a child is added to the content of that child
TextArm_into_child(stack, ev) ==
    LET decoded == from_utf8(ev.bytes)
    IN  IF IsErr(decoded) THEN [stack |-> stack, ret |-> decoded]
        ELSE LET content == trim(decoded.val)
                 last == Len(back(stack).childs)
             IN  IF content # <<>> /\ stack # <<>>
                 THEN [stack |-> push_back(pop_back(stack),
                                    IF last = 0
                                    THEN [back(stack) EXCEPT !.content = @ \o content]
                                    ELSE [back(stack) EXCEPT
                                            !.childs[last].content = @ \o content]),
                       ret |-> Running]
                 ELSE [stack |-> stack, ret |-> Running]

\* a bug: the text takes the place of the content read before
TextArm_replace(stack, ev) ==
    LET decoded == from_utf8(ev.bytes)
    IN  IF IsErr(decoded) THEN [stack |-> stack, ret |-> decoded]
        ELSE LET content == trim(decoded.val)
             IN  IF content # <<>> /\ stack # <<>>
                 THEN [stack |-> push_back(pop_back(stack),
                                    [back(stack) EXCEPT !.content = content]),
                       ret |-> Running]
                 ELSE [stack |-> stack, ret |-> Running]

\* Ok(Event::Text(ref t))
TextArm(stack, ev) ==
    LET decoded == from_utf8(ev.bytes)
    IN  IF IsErr(decoded) THEN [stack |-> stack, ret |-> decoded]
        ELSE LET content == trim(decoded.val)
             IN  IF content # <<>> /\ stack # <<>>
                 THEN [stack |-> push_back(pop_back(stack),
                                    [back(stack) EXCEPT !.content = @ \o content]),
                       ret |-> Running]
                 ELSE [stack |-> stack, ret |-> Running]

\* a bug: at the end of input, hand out the node still open on the stack
EofArm_partial(stack) ==
    [stack |-> stack, ret |-> IF stack # <<>> THEN Ok(back(stack)) ELSE Err("Eof")]

\* Ok(Event::Eof) => break Err(Error::Eof)
EofArm(stack) == [stack |-> stack, ret |-> Err("Eof")]

\* Err(e) => break Err(Error::from(e))
ErrArm(stack) == [stack |-> stack, ret |-> Err("XmlError")]

\* _ => {}
OtherArm(stack) == [stack |-> stack, ret |-> Running]

\* a bug: before a node is returned, the rest of the source is read
Take_drain(arm) ==
    /\ pos' = IF IsOk(arm.ret) THEN Len(source) + 1 ELSE pos + 1
    /\ node_stack' = arm.stack
    /\ result' = arm.ret
    /\ UNCHANGED <<source, log, self, sink, written, round, builder, chain, query>>

\* one turn of the loop: an event is read and its arm is run; the loop is
\* left as soon as an arm breaks with a value
Take(arm) ==
    /\ pos' = pos + 1
    /\ node_stack' = arm.stack
    /\ result' = arm.ret
    /\ UNCHANGED <<source, log, self, sink, written, round, builder, chain, query>>

ReadStart ==
    /\ Reading
    /\ read_event(source, pos).type = "Start"
    /\ \E hasher \in HashersFor(read_event(source, pos)) :
           Take(StartArm(node_stack, read_event(source, pos), hasher))

ReadEmpty ==
    /\ Reading
    /\ read_event(source, pos).type = "Empty"
    /\ \E hasher \in HashersFor(read_event(source, pos)) :
           Take(EmptyArm(node_stack, read_event(source, pos), hasher))

ReadEnd ==
    /\ Reading
    /\ read_event(source, pos).type = "End"
    /\ Take(EndArm(node_stack, read_event(source, pos), log))

ReadText ==
    /\ Reading
    /\ read_event(source, pos).type = "Text"
    /\ Take(TextArm(node_stack, read_event(source, pos)))

ReadEof ==
    /\ Reading
    /\ read_event(source, pos).type = "Eof"
    /\ Take(EofArm(node_stack))

ReadErr ==
    /\ Reading
    /\ read_event(source, pos).type = "Err"
    /\ Take(ErrArm(node_stack))

ReadOther ==
    /\ Reading
    /\ read_event(source, pos).type = "Comment"
    /\ Take(OtherArm(node_stack))

\* Node::read_from as a function: the loop run from the p-th event with the
\* given stack, in a build with or without feature "log"; what it returns
\* and how many events it has taken by then. Every map gets the hasher h1.
RECURSIVE read_from(_, _, _, _)
read_from(src, p, stack, logging) ==
    LET ev == read_event(src, p)
        arm == CASE ev.type = "Start" -> StartArm(stack, ev, "h1")
                 [] ev.type = "Empty" -> EmptyArm(stack, ev, "h1")
                 [] ev.type = "End" -> EndArm(stack, ev, logging)
                 [] ev.type = "Text" -> TextArm(stack, ev)
                 [] ev.type = "Eof" -> EofArm(stack)
                 [] ev.type = "Err" -> ErrArm(stack)
                 [] OTHER -> OtherArm(stack)
    IN  IF arm.ret = Running
        THEN read_from(src, p + 1, arm.stack, logging)
        ELSE [ret |-> arm.ret, pos |-> p + 1]

(***************************************************************************)
(* Node::write_to: the calls the Writer's sink receives.                   *)
(***************************************************************************)
\* quick-xml's escape, applied by BytesText::new to the text it is given
escape_char(c) ==
    CASE c = "<" -> <<"&", "l", "t", ";">>
      [] c = ">" -> <<"&", "g", "t", ";">>
      [] c = "&" -> <<"&", "a", "m", "p", ";">>
      [] c = "'" -> <<"&", "a", "p", "o", "s", ";">>
      [] c = "\"" -> <<"&", "q", "u", "o", "t", ";">>
      [] OTHER -> <<c>>

RECURSIVE escape(_)
escape(str) ==
    IF str = <<>> THEN <<>> ELSE escape_char(Head(str)) \o escape(Tail(str))

\* BytesText::new(&self.content): the event holds the escaped text
BytesText_new(content) == Text(escape(content))

\* a bug: the start tag is made of the name alone
BytesStart_from_bare(node) == [name |-> node.name, attrs |-> <<>>]

\* impl From<&Node> for BytesStart: the name, and the attributes in the
\* order the map iterates, each value taken as it is
BytesStart_from(node) == [name |-> node.name, attrs |-> iter(node.attributes)]

Flush == [type |-> "Flush"]

\* A Writer over a sink whose failAt-th call fails (0: no call fails)
NewWriter(failAt) == [calls |-> <<>>, failAt |-> failAt]

\* writer.write_event(ev)
write_event(writer, ev) ==
    [writer |-> [writer EXCEPT !.calls = Append(@, ev)],
     ret |-> IF Len(writer.calls) + 1 = writer.failAt THEN Err("XmlError") ELSE Ok("unit")]

\* writer.get_mut().flush()
flush(writer) ==
    [writer |-> [writer EXCEPT !.calls = Append(@, Flush)],
     ret |-> IF Len(writer.calls) + 1 = writer.failAt THEN Err("IOError") ELSE Ok("unit")]

RECURSIVE write_to(_, _)
RECURSIVE write_to_impl(_, _)
RECURSIVE write_childs(_, _, _)

\* for child in &self.childs { child.write_to(writer)?; }
write_childs(childs, i, writer) ==
    IF i > Len(childs) THEN [writer |-> writer, ret |-> Ok("unit")]
    ELSE LET r == write_to(childs[i], writer)
         IN  IF IsErr(r.ret) THEN r ELSE write_childs(childs, i + 1, r.writer)

\* a bug: the content is written after the children
write_to_impl_text_last(node, writer) ==
    LET start == BytesStart_from(node)
    IN  IF node.childs = <<>> /\ node.content = <<>>
        THEN write_event(writer, Empty(start.name, start.attrs))
        ELSE LET opened == write_event(writer, Start(start.name, start.attrs))
                 inner == IF IsErr(opened.ret)
                          THEN opened
                          ELSE write_childs(node.childs, 1, opened.writer)
                 text == IF IsErr(inner.ret) \/ node.content = <<>>
                         THEN inner
                         ELSE write_event(inner.writer, BytesText_new(node.content))
             IN  IF IsErr(text.ret)
                 THEN text
                 ELSE write_event(text.writer, End(node.name))

\* Node::write_to_impl
write_to_impl(node, writer) ==
    LET start == BytesStart_from(node)
    IN  IF node.childs = <<>> /\ node.content = <<>>
        THEN write_event(writer, Empty(start.name, start.attrs))
        ELSE LET opened == write_event(writer, Start(start.name, start.attrs))
                 text == IF IsErr(opened.ret) \/ node.content = <<>>
                         THEN opened
                         ELSE write_event(opened.writer, BytesText_new(node.content))
                 inner == IF IsErr(text.ret)
                          THEN text
                          ELSE write_childs(node.childs, 1, text.writer)
             IN  IF IsErr(inner.ret)
                 THEN inner
                 ELSE write_event(inner.writer, End(node.name))

\* a bug: the result of the flush is dropped
write_to_unchecked_flush(node, writer) ==
    LET r == write_to_impl(node, writer)
    IN  IF IsErr(r.ret) THEN r
        ELSE [writer |-> flush(r.writer).writer, ret |-> Ok("unit")]

\* Node::write_to
write_to(node, writer) ==
    LET r == write_to_impl(node, writer)
    IN  IF IsErr(r.ret) THEN r ELSE flush(r.writer)

\* The events a Reader over the written text delivers: the tags and texts
\* that were written, with the bytes they were written with. A flush writes
\* nothing.
IsWrite(call) == call.type # "Flush"
reader_from_str(calls) == SelectSeq(calls, IsWrite)

\* node.write_to(&mut writer), on the node read_from has returned
WriteTo ==
    /\ round = 1
    /\ IsOk(result)
    /\ written = NotCalled
    /\ \E failAt \in 0..MaxFailAt :
          LET r == write_to(result.val, NewWriter(failAt))
          IN  /\ self' = result.val
              /\ sink' = r.writer
              /\ written' = r.ret
    /\ UNCHANGED <<source, pos, node_stack, result, log, round, builder, chain, query>>

\* Node::from_str(&node.to_string()): read_from starts over on the text
\* that write_to has written
FromStr ==
    /\ round = 1
    /\ IsOk(written)
    /\ source' = reader_from_str(sink.calls)
    /\ pos' = 0
    /\ node_stack' = <<>>
    /\ result' = Running
    /\ round' = 2
    /\ UNCHANGED <<log, self, sink, written, builder, chain, query>>

(***************************************************************************)
(* Parsing: read_from on any event source, then the tree it returned is    *)
(* written and read again.                                                 *)
(***************************************************************************)
Names == {<<"a">>, <<"b">>}

Events ==
    { Start(<<"a">>, <<>>),
      Start(<<"b">>, <<Attr(<<"k">>, <<"v">>)>>),
      Empty(<<"c">>, <<Attr(<<"k">>, <<"v">>), Attr(<<"j">>, <<"w">>)>>),
      Empty(<<"d">>, <<Attr(<<"k">>, <<"v">>), Attr(<<"k">>, <<"w">>)>>),
      Empty(<<"b">>, <<>>),
      End(<<"a">>),
      End(<<InvalidByte>>),
      Text(<<" ", "x", " ">>),
      Text(<<" ">>),
      Text(<<">">>),
      Text(<<InvalidByte>>),
      Comment,
      SyntaxError }

SeqsUpTo(S, n) == UNION {[1..k -> S] : k \in 0..n}

\* <a><b></b></a>
NestedSource ==
    <<Start(<<"a">>, <<>>), Start(<<"b">>, <<>>), End(<<"b">>), End(<<"a">>)>>

\* <a k="v"/>
SelfClosingSource == <<Empty(<<"a">>, <<Attr(<<"k">>, <<"v">>)>>)>>

\* <a> hello <!-- -->world </a>
HelloWorldSource ==
    <<Start(<<"a">>, <<>>), Text(<<" ", "h", "e", "l", "l", "o", " ">>), Comment,
      Text(<<"w", "o", "r", "l", "d", " ">>), End(<<"a">>)>>

\* <a>x<b>y<c/></b>z<d></d></a>t
MixedSource ==
    <<Start(<<"a">>, <<>>), Text(<<"x">>), Start(<<"b">>, <<>>), Text(<<"y">>),
      Empty(<<"c">>, <<>>), End(<<"b">>), Text(<<"z">>), Start(<<"d">>, <<>>),
      End(<<"d">>), End(<<"a">>), Text(<<"t">>)>>

\* <a><b k="v" k="w">
DuplicateSource ==
    <<Start(<<"a">>, <<>>),
      Start(<<"b">>, <<Attr(<<"k">>, <<"v">>), Attr(<<"k">>, <<"w">>)>>)>>

\* <></>: quick-xml takes the bytes up to the first white space or the end of
\* the tag as the name, and does not ask for a name that is not empty
NamelessSource == <<Start(<<>>, <<>>), End(<<>>)>>

\* documents of the kinds the enumeration does not reach
ExampleSources ==
    {NestedSource, SelfClosingSource, HelloWorldSource, MixedSource, DuplicateSource,
     NamelessSource}

Sources == SeqsUpTo(Events, MaxEvents) \cup ExampleSources

Init ==
    /\ source \in Sources
    /\ log \in BOOLEAN
    /\ pos = 0
    /\ node_stack = <<>>
    /\ result = Running
    /\ self = NoNode
    /\ sink = NewWriter(0)
    /\ written = NotCalled
    /\ round = 1
    /\ builder = Moved   \* no builder takes part in parsing
    /\ chain = NotRecorded
    /\ query = NoQuery

Next ==
    \/ ReadStart
    \/ ReadEmpty
    \/ ReadEnd
    \/ ReadText
    \/ ReadEof
    \/ ReadErr
    \/ ReadOther
    \/ WriteTo
    \/ FromStr

Spec == Init /\ [][Next]_vars

(***************************************************************************)
(* NodeBuilder.                                                            *)
(***************************************************************************)
\* NodeBuilder::new
NodeBuilder_new(name, hasher) ==
    [name |-> name, content |-> <<>>, attributes |-> NewMap(hasher), childs |-> <<>>]

\* NodeBuilder::name
NodeBuilder_name(b, name) == [b EXCEPT !.name = name]

\* NodeBuilder::content
NodeBuilder_content(b, data) == [b EXCEPT !.content = data]

\* HashMap::extend: insert every pair, in the order the iterator yields them
RECURSIVE extend(_, _)
extend(m, pairs) ==
    IF pairs = <<>> THEN m
    ELSE extend(Insert(m, Head(pairs).key, Head(pairs).value), Tail(pairs))

\* NodeBuilder::attributes
NodeBuilder_attributes(b, pairs) == [b EXCEPT !.attributes = extend(@, pairs)]

\* a bug: the value a key already has is kept
NodeBuilder_attribute_or_insert(b, key, value) ==
    IF contains_key(b.attributes, key) THEN b
    ELSE [b EXCEPT !.attributes = Insert(@, key, value)]

\* NodeBuilder::attribute
NodeBuilder_attribute(b, key, value) == [b EXCEPT !.attributes = Insert(@, key, value)]

\* NodeBuilder::childs
NodeBuilder_childs(b, childs) == [b EXCEPT !.childs = @ \o childs]

\* NodeBuilder::child
NodeBuilder_child(b, child) == [b EXCEPT !.childs = Append(@, child)]

\* NodeBuilder::option_child; None is Moved's sibling: no node
None == [tag |-> "None"]
Some(v) == [tag |-> "Some", val |-> v]

NodeBuilder_option_child(b, child) ==
    IF child.tag = "Some" THEN [b EXCEPT !.childs = Append(@, child.val)] ELSE b

\* NodeBuilder::try_child, given what child.try_into() returned
NodeBuilder_try_child(b, converted) ==
    IF IsErr(converted) THEN converted
    ELSE Ok([b EXCEPT !.childs = Append(@, converted.val)])

\* NodeBuilder::build
NodeBuilder_build(b) == MkNode(b.name, b.content, b.attributes, b.childs)

\* Text of a node under construction, and values of attributes
Contents == {<<>>, <<"x">>, <<" ", "x">>, <<" ">>, <<">">>}
Values == {<<"v">>, <<"w">>}
Keys == {AttrKeys[i] : i \in 1..Len(AttrKeys)}

\* Nodes a caller has built before and passes as children
LeafB == NodeBuilder_build(NodeBuilder_new(<<"b">>, "h1"))
LeafC ==
    NodeBuilder_build(
        NodeBuilder_attribute(
            NodeBuilder_attribute(NodeBuilder_new(<<"c">>, "h2"), <<"k">>, <<"v">>),
            <<"j">>, <<"w">>))
InnerD ==
    NodeBuilder_build(
        NodeBuilder_child(
            NodeBuilder_content(NodeBuilder_new(<<"d">>, "h1"), <<"y">>),
            LeafB))
PaddedE ==
    NodeBuilder_build(NodeBuilder_content(NodeBuilder_new(<<"e">>, "h1"), <<"z", " ">>))
ChildPool == {LeafB, LeafC, InnerD, PaddedE}

\* most children a builder of the model takes
MaxChilds == 2

Building == IsOk(builder)

Room(n) == Len(builder.val.childs) + n <= MaxChilds

\* most calls of a recorded chain, after NodeBuilder::new
MaxCalls == 2

Built(b, call) ==
    /\ chain.recorded => Len(chain.calls) <= MaxCalls
    /\ builder' = b
    /\ chain' = IF chain.recorded THEN Recorded(Append(chain.calls, call)) ELSE chain
    /\ UNCHANGED <<source, pos, node_stack, result, log, self, sink, written, round,
                   query>>

BuilderName ==
    /\ Building
    /\ \E name \in Names : Built(Ok(NodeBuilder_name(builder.val, name)), Call("name", name))

BuilderContent ==
    /\ Building
    /\ \E data \in Contents : Built(Ok(NodeBuilder_content(builder.val, data)), Call("content", data))

BuilderAttribute ==
    /\ Building
    /\ \E key \in Keys, value \in Values :
          Built(Ok(NodeBuilder_attribute(builder.val, key, value)),
                Call("attribute", Attr(key, value)))

BuilderAttributes ==
    /\ Building
    /\ \E pairs \in SeqsUpTo({Attr(<<"k">>, v) : v \in Values}, 2) :
          Built(Ok(NodeBuilder_attributes(builder.val, pairs)),
                Call("attributes", pairs))

BuilderChild ==
    /\ Building
    /\ Room(1)
    /\ \E child \in ChildPool :
          Built(Ok(NodeBuilder_child(builder.val, child)), Call("child", child))

BuilderChilds ==
    /\ Building
    /\ \E childs \in SeqsUpTo(ChildPool, 2) :
          /\ Room(Len(childs))
          /\ Built(Ok(NodeBuilder_childs(builder.val, childs)), Call("childs", childs))

BuilderOptionChild ==
    /\ Building
    /\ Room(1)
    /\ \E child \in {None} \cup {Some(c) : c \in ChildPool} :
          Built(Ok(NodeBuilder_option_child(builder.val, child)),
                Call("option_child", child))

BuilderTryChild ==
    /\ Building
    /\ Room(1)
    /\ \E converted \in {Err("ParseNodeError")} \cup {Ok(c) : c \in ChildPool} :
          Built(NodeBuilder_try_child(builder.val, converted),
                Call("try_child", converted))

\* let node = builder.build();
Build ==
    /\ Building
    /\ self' = NodeBuilder_build(builder.val)
    /\ builder' = Moved
    /\ UNCHANGED <<source, pos, node_stack, result, log, sink, written, round,
                   chain, query>>

\* node.write_to(&mut writer), on the node the builder has built
WriteBuilt ==
    /\ round = 1
    /\ self # NoNode
    /\ written = NotCalled
    /\ \E failAt \in 0..MaxFailAt :
          LET r == write_to(self, NewWriter(failAt))
          IN  /\ sink' = r.writer
              /\ written' = r.ret
    /\ UNCHANGED <<source, pos, node_stack, result, log, self, round, builder, chain, query>>

\* A caller builds a node, writes it, and reads back what was written. What
\* write_to has written is a complete document: read_from returns before
\* the end of input.
InitBuild ==
    /\ \E name \in Names, hasher \in Hashers :
          builder = Ok(NodeBuilder_new(name, hasher))
    /\ log \in BOOLEAN
    /\ source = <<>>
    /\ pos = 0
    /\ node_stack = <<>>
    /\ result = NotCalled
    /\ self = NoNode
    /\ sink = NewWriter(0)
    /\ written = NotCalled
    /\ round = 1
    /\ chain = NotRecorded
    /\ query = NoQuery

NextBuild ==
    \/ BuilderName
    \/ BuilderContent
    \/ BuilderAttribute
    \/ BuilderAttributes
    \/ BuilderChild
    \/ BuilderChilds
    \/ BuilderOptionChild
    \/ BuilderTryChild
    \/ Build
    \/ WriteBuilt
    \/ FromStr
    \/ ReadStart
    \/ ReadEmpty
    \/ ReadEnd
    \/ ReadText

SpecBuild == InitBuild /\ [][NextBuild]_vars

\* A caller makes a chain of at most MaxCalls calls on a new builder and
\* builds the node; the calls are recorded.
InitChain ==
    /\ \E name \in Names, hasher \in Hashers :
          /\ builder = Ok(NodeBuilder_new(name, hasher))
          /\ chain = Recorded(<<Call("new", name)>>)
    /\ log \in BOOLEAN
    /\ source = <<>>
    /\ pos = 0
    /\ node_stack = <<>>
    /\ result = NotCalled
    /\ self = NoNode
    /\ sink = NewWriter(0)
    /\ written = NotCalled
    /\ round = 1
    /\ query = NoQuery

NextChain ==
    \/ BuilderName
    \/ BuilderContent
    \/ BuilderAttribute
    \/ BuilderAttributes
    \/ BuilderChild
    \/ BuilderChilds
    \/ BuilderOptionChild
    \/ BuilderTryChild
    \/ Build

SpecChain == InitChain /\ [][NextChain]_vars

(***************************************************************************)
(* The accessors of a node.                                                *)
(***************************************************************************)
\* ParseNodeError::MissingAttribute(key, node name),
\* ParseNodeError::MissingChild(child name, node name)
MissingAttribute(key, name) == [variant |-> "MissingAttribute", fields |-> <<key, name>>]
MissingChild(child, name) == [variant |-> "MissingChild", fields |-> <<child, name>>]

\* Error::ParseNodeError(#[from] ParseNodeError), applied by .into()
ParseNodeError(e) == [variant |-> "ParseNodeError", from |-> e]

\* Node::has_attribute
has_attribute(node, key) == contains_key(node.attributes, key)

\* a bug: the error is made of the node's name and then the key
attribute_name_first(node, key) ==
    IF contains_key(node.attributes, key)
    THEN Ok(get(node.attributes, key))
    ELSE Err(ParseNodeError(MissingAttribute(node.name, key)))

\* Node::attribute
attribute(node, key) ==
    IF contains_key(node.attributes, key)
    THEN Ok(get(node.attributes, key))
    ELSE Err(ParseNodeError(MissingAttribute(key, node.name)))

\* a bug: the children of the children are looked at too
RECURSIVE childs_by_name_deep(_, _)
childs_by_name_deep(node, name) ==
    LET Named(c) == c.name = name
        Below(i) == childs_by_name_deep(node.childs[i], name)
        RECURSIVE All(_)
        All(i) ==
            IF i > Len(node.childs) THEN <<>>
            ELSE (IF Named(node.childs[i]) THEN <<node.childs[i]>> ELSE <<>>)
                    \o Below(i) \o All(i + 1)
    IN  All(1)

\* Node::childs_by_name: the nodes the returned iterator yields
childs_by_name(node, name) ==
    LET Named(c) == c.name = name
    IN  SelectSeq(node.childs, Named)

\* Node::child_by_name
child_by_name(node, name) ==
    LET found == childs_by_name(node, name)
    IN  IF found = <<>>
        THEN Err(ParseNodeError(MissingChild(name, node.name)))
        ELSE Ok(Head(found))

\* an accessor call on self, its argument and what it returned
Query(op, arg, ret) == [op |-> op, arg |-> arg, ret |-> ret]

Asked(q) ==
    /\ self # NoNode
    /\ query' = q
    /\ UNCHANGED <<source, pos, node_stack, result, log, self, sink, written, round,
                   builder, chain>>

\* keys and names a caller asks for: some that occur and one that does not
QueryKeys == Keys \cup {<<"x">>}
QueryNames == {<<"b">>, <<"d">>, <<"x">>}

\* node.attribute(key)
CallAttribute ==
    \E key \in QueryKeys : Asked(Query("attribute", key, attribute(self, key)))

\* node.has_attribute(key)
CallHasAttribute ==
    \E key \in QueryKeys : Asked(Query("has_attribute", key, has_attribute(self, key)))

\* node.child_by_name(name)
CallChildByName ==
    \E name \in QueryNames : Asked(Query("child_by_name", name, child_by_name(self, name)))

\* node.childs_by_name(name).collect()
CallChildsByName ==
    \E name \in QueryNames : Asked(Query("childs_by_name", name, childs_by_name(self, name)))

\* Nodes a caller asks: built by a NodeBuilder, with children among which
\* two have the same name and differ, and one has a child named as another
TextB == NodeBuilder_build(NodeBuilder_content(NodeBuilder_new(<<"b">>, "h2"), <<"x">>))
QueryPool == ChildPool \cup {TextB}
QueryNodes ==
    {NodeBuilder_build(
        NodeBuilder_childs(
            NodeBuilder_attributes(NodeBuilder_new(name, "h1"), pairs), childs)) :
        name \in Names,
        pairs \in SeqsUpTo({Attr(k, v) : k \in Keys, v \in Values}, 2),
        childs \in SeqsUpTo(QueryPool, MaxChilds)}

InitQuery ==
    /\ self \in QueryNodes
    /\ query = NoQuery
    /\ log \in BOOLEAN
    /\ source = <<>>
    /\ pos = 0
    /\ node_stack = <<>>
    /\ result = NotCalled
    /\ sink = NewWriter(0)
    /\ written = NotCalled
    /\ round = 1
    /\ builder = Moved
    /\ chain = NotRecorded

NextQuery ==
    \/ CallAttribute
    \/ CallHasAttribute
    \/ CallChildByName
    \/ CallChildsByName

SpecQuery == InitQuery /\ [][NextQuery]_vars

(***************************************************************************)
(* Properties.                                                             *)
(***************************************************************************)
\* derive(PartialEq) on Node: name, content, the attribute pairs and the
\* children in order; the hasher of a map is no part of its value
RECURSIVE Strip(_)
Strip(node) ==
    [name |-> node.name, content |-> node.content,
     attributes |-> node.attributes.entries,
     childs |-> [i \in 1..Len(node.childs) |-> Strip(node.childs[i])]]

NodeEq(a, b) == Strip(a) = Strip(b)

\* read_from has read Eof
EofRead == pos > Len(source)

\* the events read_from has read so far, Eof left out
consumed == SubSeq(source, 1, IF EofRead THEN Len(source) ELSE pos)

\* C3: whenever read_from has read Eof, whatever is on the stack, it has
\* returned Error::Eof, and so a node is never returned at the end of input.
C3_Truncation == EofRead => result = Err("Eof")

\* Eof has been read while a node was still open.
C3_Witness == EofRead /\ node_stack # <<>> /\ IsErr(result)

IsOpen(ev) == ev.type \in {"Start", "Empty"}

\* Start events less End events among the first i events
DepthAfter(E, i) ==
    Cardinality({j \in 1..i : E[j].type = "Start"})
        - Cardinality({j \in 1..i : E[j].type = "End"})

\* One element with all it contains: every Start is closed by a later End,
\* and the first tag is closed by the last event.
WellBalanced(E) ==
    /\ E # <<>>
    /\ IsOpen(E[1])
    /\ \A i \in 1..Len(E) : E[i].type \in {"Start", "Empty", "End", "Text", "Comment"}
    /\ \A i \in 1..(Len(E) - 1) : DepthAfter(E, i) >= 1
    /\ DepthAfter(E, Len(E)) = 0

Valid(bytes) == \A i \in 1..Len(bytes) : bytes[i] # InvalidByte

DistinctKeys(attrs) ==
    \A i, j \in 1..Len(attrs) : attrs[i].key = attrs[j].key => i = j

\* a tag a node can be made of, a text that is text
Decodable(ev) ==
    /\ IsOpen(ev) =>
          /\ Valid(ev.name)
          /\ DistinctKeys(ev.attrs)
          /\ \A i \in 1..Len(ev.attrs) : Valid(ev.attrs[i].key) /\ Valid(ev.attrs[i].value)
    /\ ev.type = "Text" => Valid(ev.bytes)

AllDecodable(E) == \A i \in 1..Len(E) : Decodable(E[i])

Indices(E) == [i \in 1..Len(E) |-> i]

\* the tags of a document in document order, each with the number of
\* elements open around it
Shape(E) ==
    LET Opens(i) == IsOpen(E[i])
        opens == SelectSeq(Indices(E), Opens)
    IN  [k \in 1..Len(opens) |->
            [name |-> E[opens[k]].name, depth |-> DepthAfter(E, opens[k] - 1)]]

\* the nodes of a tree, parent before children, children in order, each
\* with its depth
RECURSIVE PreOrder(_, _)
RECURSIVE PreOrderAll(_, _)
PreOrder(node, depth) ==
    <<[name |-> node.name, depth |-> depth]>> \o PreOrderAll(node.childs, depth + 1)
PreOrderAll(nodes, depth) ==
    IF nodes = <<>> THEN <<>>
    ELSE PreOrder(Head(nodes), depth) \o PreOrderAll(Tail(nodes), depth)

\* read_from has read a whole well-balanced document and nothing else
ReadBalanced ==
    /\ result \notin {NotCalled}
    /\ ~EofRead
    /\ WellBalanced(consumed)
    /\ AllDecodable(consumed)

\* C4: on a well-balanced document read_from returns the tree whose nodes,
\* taken parent first and children in order, are the document's tags in
\* document order, each as deep as its tag is nested; <a><b></b></a> gives
\* root a with the one child b, both without content, b without children.
C4_BalancedNesting ==
    /\ ReadBalanced => IsOk(result) /\ PreOrder(result.val, 0) = Shape(consumed)
    /\ source = NestedSource /\ pos = Len(NestedSource) =>
          /\ IsOk(result)
          /\ Strip(result.val) =
                [name |-> <<"a">>, content |-> <<>>, attributes |-> <<>>,
                 childs |-> <<[name |-> <<"b">>, content |-> <<>>,
                               attributes |-> <<>>, childs |-> <<>>]>>]

\* A document has been read whose root has two children of different names,
\* the first of them with a child of its own.
C4_Witness ==
    /\ ReadBalanced
    /\ IsOk(result)
    /\ Len(result.val.childs) >= 2
    /\ result.val.childs[1].name # result.val.childs[2].name
    /\ result.val.childs[1].childs # <<>>

\* a text without the white space around it: from its first to its last
\* character that is not white space
Trimmed(str) ==
    LET inked == {i \in 1..Len(str) : str[i] \notin WhiteSpace}
    IN  IF inked = {} THEN <<>>
        ELSE SubSeq(str, CHOOSE i \in inked : \A j \in inked : i <= j,
                         CHOOSE i \in inked : \A j \in inked : i >= j)

\* the End that closes the Start at i
Closing(E, i) ==
    CHOOSE m \in (i + 1)..Len(E) :
        /\ DepthAfter(E, m) = DepthAfter(E, i - 1)
        /\ \A n \in (i + 1)..(m - 1) : DepthAfter(E, n) > DepthAfter(E, i - 1)

\* the trimmed texts among E[from..to] that lie directly inside an element
\* of the given depth, one after the other
RECURSIVE TextsAt(_, _, _, _)
TextsAt(E, from, to, depth) ==
    IF from > to THEN <<>>
    ELSE (IF E[from].type = "Text" /\ DepthAfter(E, from) = depth
          THEN Trimmed(E[from].bytes)
          ELSE <<>>) \o TextsAt(E, from + 1, to, depth)

\* for each tag of a well-balanced document, in document order, the text
\* directly inside its element
ExpectedContents(E) ==
    LET Opens(i) == IsOpen(E[i])
        opens == SelectSeq(Indices(E), Opens)
    IN  [k \in 1..Len(opens) |->
            IF E[opens[k]].type = "Empty" THEN <<>>
            ELSE TextsAt(E, opens[k] + 1, Closing(E, opens[k]),
                         DepthAfter(E, opens[k]))]

\* the contents of the nodes of a tree, parent before children
RECURSIVE ContentsOf(_)
RECURSIVE ContentsOfAll(_)
ContentsOf(node) == <<node.content>> \o ContentsOfAll(node.childs)
ContentsOfAll(nodes) ==
    IF nodes = <<>> THEN <<>>
    ELSE ContentsOf(Head(nodes)) \o ContentsOfAll(Tail(nodes))

\* read_from takes a Text event of valid UTF-8
TextStep ==
    /\ Reading
    /\ pos' = pos + 1
    /\ read_event(source, pos).type = "Text"
    /\ Valid(read_event(source, pos).bytes)

C5_Step ==
    /\ TextStep =>
          LET text == Trimmed(read_event(source, pos).bytes)
              top == Len(node_stack)
          IN  /\ result' = Running
              /\ Len(node_stack') = top
              /\ \A i \in 1..(top - 1) : node_stack'[i] = node_stack[i]
              /\ top > 0 =>
                    /\ node_stack'[top].content =
                          IF text # <<>> THEN node_stack[top].content \o text
                                         ELSE node_stack[top].content
                    /\ node_stack'[top] =
                          [node_stack[top] EXCEPT !.content = node_stack'[top].content]
    /\ (ReadBalanced /\ IsOk(result))' =>
          (ContentsOf(result.val) = ExpectedContents(consumed))'
    /\ (source = HelloWorldSource /\ pos = Len(HelloWorldSource))' =>
          (IsOk(result) /\ result.val.content
              = <<"h", "e", "l", "l", "o", "w", "o", "r", "l", "d">>)'

\* C5: a Text event whose trimmed value is not empty appends that value to
\* the content of the node on top of the stack and changes no other node; a
\* Text event whose trimmed value is empty, or that finds the stack empty,
\* changes nothing. The content of every node of a tree read from a
\* well-balanced document is the trimmed texts directly inside its element,
\* one after the other; " hello " and "world " give "helloworld".
C5_TextAccumulation == [][C5_Step]_vars

\* Two texts in a row have been appended to the node on top of the stack.
C5_Witness ==
    /\ result = Running
    /\ node_stack # <<>>
    /\ pos >= 3
    /\ source[pos].type = "Text" /\ source[pos - 1].type = "Text"
    /\ Valid(source[pos].bytes) /\ Valid(source[pos - 1].bytes)
    /\ Trimmed(source[pos].bytes) # <<>> /\ Trimmed(source[pos - 1].bytes) # <<>>
    /\ Len(back(node_stack).content)
          >= Len(Trimmed(source[pos].bytes)) + Len(Trimmed(source[pos - 1].bytes))

\* node is the leaf a tag stands for: the tag's name, the tag's attribute
\* pairs, no content, no children
IsLeafOf(node, ev) ==
    /\ node.name = ev.name
    /\ node.content = <<>>
    /\ node.childs = <<>>
    /\ DOMAIN node.attributes.entries = {ev.attrs[i].key : i \in 1..Len(ev.attrs)}
    /\ \A i \in 1..Len(ev.attrs) :
          node.attributes.entries[ev.attrs[i].key] = ev.attrs[i].value

\* read_from takes an Empty event a node can be made of
EmptyStep ==
    /\ Reading
    /\ pos' = pos + 1
    /\ read_event(source, pos).type = "Empty"
    /\ Decodable(read_event(source, pos))

C6_Step ==
    /\ EmptyStep =>
          LET ev == read_event(source, pos)
              top == Len(node_stack)
          IN  IF top = 0
              THEN /\ node_stack' = <<>>
                   /\ IsOk(result')
                   /\ IsLeafOf(result'.val, ev)
              ELSE /\ result' = Running
                   /\ Len(node_stack') = top
                   /\ \A i \in 1..(top - 1) : node_stack'[i] = node_stack[i]
                   /\ Len(node_stack'[top].childs) = Len(node_stack[top].childs) + 1
                   /\ IsLeafOf(node_stack'[top].childs[Len(node_stack'[top].childs)], ev)
                   /\ node_stack'[top] =
                         [node_stack[top] EXCEPT !.childs =
                             Append(@, node_stack'[top].childs[Len(node_stack'[top].childs)])]
    /\ (source = SelfClosingSource /\ pos = 1)' =>
          (/\ IsOk(result)
           /\ Strip(result.val) =
                 [name |-> <<"a">>, content |-> <<>>,
                  attributes |-> [k \in {<<"k">>} |-> <<"v">>], childs |-> <<>>])'

\* C6: an Empty event is never pushed on the stack. On an empty stack
\* read_from returns the leaf of that name and those attributes, without
\* children or content; otherwise the leaf becomes the last child of the
\* node on top of the stack, and the depth of the stack and every other
\* entry stay as they were. <a k="v"/> gives the leaf a with k -> v.
C6_EmptyElement == [][C6_Step]_vars

\* An Empty event has been read below two open elements and is now the last
\* child of the inner one.
C6_Witness ==
    /\ result = Running
    /\ Len(node_stack) >= 2
    /\ pos >= 3
    /\ source[pos].type = "Empty"
    /\ back(node_stack).childs # <<>>
    /\ IsLeafOf(back(node_stack).childs[Len(back(node_stack).childs)], source[pos])

\* nothing but End and Text events
Stray(E) == \A i \in 1..Len(E) : E[i].type \in {"End", "Text"}

Undecodable(ev) ==
    \/ ev.type = "Text" /\ ~Valid(ev.bytes)
    \/ ev.type = "End" /\ log /\ ~Valid(ev.name)

Returned == result \notin {NotCalled, Running}

\* C8 as claimed: when read_from returns, it has read every event of the
\* source up to and including Eof.
C8_SourceFullyConsumed == Returned => EofRead

\* C8, amended: read_from reads the source in order and returns on the
\* first event that completes the root (an End or an Empty), on the first
\* event that fails, or on Eof. It has read Eof exactly when it returns
\* Error::Eof; when it returns a node, the events after the one that
\* completed the root, Eof among them, have not been read.
C8_ReturnsAtRoot ==
    /\ pos <= Len(source) + 1
    /\ Returned =>
          /\ pos >= 1
          /\ EofRead <=> result = Err("Eof")
          /\ IsOk(result) => source[pos].type \in {"End", "Empty"}
          /\ IsErr(result) /\ ~EofRead =>
                \/ source[pos].type = "Err"
                \/ ~Decodable(source[pos])
                \/ Undecodable(source[pos])

\* read_from has returned a node and events of the source are left unread.
C8_Witness == IsOk(result) /\ pos < Len(source)

\* a tag of valid UTF-8 throughout
ValidTag(ev) ==
    /\ IsOpen(ev)
    /\ Valid(ev.name)
    /\ \A i \in 1..Len(ev.attrs) : Valid(ev.attrs[i].key) /\ Valid(ev.attrs[i].value)

\* the value a key has where it occurs last in a tag
LastValue(attrs, key) ==
    attrs[CHOOSE i \in 1..Len(attrs) :
            /\ attrs[i].key = key
            /\ \A j \in (i + 1)..Len(attrs) : attrs[j].key # key].value

\* the node made of the tag read last
Newest ==
    IF source[pos].type = "Start" THEN back(node_stack)
    ELSE IF node_stack = <<>> THEN result.val
    ELSE back(node_stack).childs[Len(back(node_stack).childs)]

\* the tag read last holds an attribute key twice
DuplicateRead ==
    /\ result # NotCalled
    /\ pos >= 1
    /\ ~EofRead
    /\ ValidTag(source[pos])
    /\ ~DistinctKeys(source[pos].attrs)

\* C9 as claimed: a tag that holds an attribute key more than once gives a
\* node whose mapping has, for that key, the value of the last occurrence;
\* the parse is not aborted.
C9_DuplicateKeyLastWins ==
    DuplicateRead =>
        /\ ~IsErr(result)
        /\ \A i \in 1..Len(source[pos].attrs) :
              Newest.attributes.entries[source[pos].attrs[i].key]
                  = LastValue(source[pos].attrs, source[pos].attrs[i].key)

\* read_from takes a Start or Empty event of valid UTF-8
TagStep ==
    /\ Reading
    /\ pos' = pos + 1
    /\ ValidTag(read_event(source, pos))

C9_Step ==
    TagStep =>
        LET attrs == read_event(source, pos).attrs
        IN  IF DistinctKeys(attrs)
            THEN /\ ~IsErr(result')
                 /\ DOMAIN Newest'.attributes.entries = {attrs[i].key : i \in 1..Len(attrs)}
                 /\ \A i \in 1..Len(attrs) :
                       Newest'.attributes.entries[attrs[i].key] = attrs[i].value
            ELSE /\ result' = Err("AttributeXmlError")
                 /\ node_stack' = node_stack

\* C9, amended: a tag that holds an attribute key more than once aborts the
\* parse with an attribute error and no node is made of it; a tag whose
\* keys are distinct gives a node whose mapping holds exactly the tag's
\* pairs.
C9_DuplicateKeyRejected == [][C9_Step]_vars

\* A tag with a key twice has been read inside an open element and the
\* parse has ended with the attribute error.
C9_Witness ==
    /\ DuplicateRead
    /\ node_stack # <<>>
    /\ result = Err("AttributeXmlError")

\* the characters quick-xml's escape replaces
Escaped == {"<", ">", "&", "'", "\""}

RECURSIVE AllNodes(_)
RECURSIVE AllNodesOf(_)
\* a node and all its descendants
AllNodes(node) == {node} \cup AllNodesOf(node.childs)
AllNodesOf(nodes) ==
    IF nodes = <<>> THEN {} ELSE AllNodes(Head(nodes)) \cup AllNodesOf(Tail(nodes))

\* C2: when read_from has returned a tree P, writing P and reading what was
\* written returns a tree equal to P.
C2_ParsedRoundTrip ==
    round = 2 /\ Returned => IsOk(result) /\ NodeEq(result.val, self)

EscapeFree(str) == \A i \in 1..Len(str) : str[i] \notin Escaped

\* every node has a name, and no content and no attribute value holds a
\* character that needs escaping
NamedAndEscapeFree(tree) ==
    \A n \in AllNodes(tree) :
        /\ n.name # <<>>
        /\ EscapeFree(n.content)
        /\ \A k \in DOMAIN n.attributes.entries : EscapeFree(n.attributes.entries[k])

\* no content starts or ends with white space
ContentsTrimmed(tree) == \A n \in AllNodes(tree) : Trimmed(n.content) = n.content

\* read_from, started on what write_to wrote of self, goes on to return a
\* node equal to self
ReadsBackSelf ==
    IF result = Running THEN pos < Len(source)
    ELSE IsOk(result) /\ NodeEq(result.val, self)

Tag(type, name, pairs, count) ==
    [type |-> type, name |-> name, pairs |-> pairs, count |-> count]

TagOf(type, node) ==
    Tag(type, node.name,
        {Attr(k, node.attributes.entries[k]) : k \in DOMAIN node.attributes.entries},
        Cardinality(DOMAIN node.attributes.entries))

Canonical(call) ==
    IF IsOpen(call)
    THEN Tag(call.type, call.name,
             {call.attrs[i] : i \in 1..Len(call.attrs)}, Len(call.attrs))
    ELSE call

\* what the write rule asks the sink to receive for a node; the text event
\* made of the content holds it in its escaped form
RECURSIVE Emission(_)
RECURSIVE EmissionAll(_)
Emission(node) ==
    IF node.childs = <<>> /\ node.content = <<>>
    THEN <<TagOf("Empty", node)>>
    ELSE <<TagOf("Start", node)>>
            \o (IF node.content # <<>> THEN <<Text(escape(node.content))>> ELSE <<>>)
            \o EmissionAll(node.childs)
            \o <<End(node.name)>>
EmissionAll(nodes) ==
    IF nodes = <<>> THEN <<>>
    ELSE Emission(Head(nodes)) \o EmissionAll(Tail(nodes))

\* the tag and text writes among the calls of the sink
Writes(calls) == SelectSeq(calls, IsWrite)

\* every End closes a Start, and no Start stays open
BalancedTags(E) ==
    /\ \A i \in 1..Len(E) : DepthAfter(E, i) >= 0
    /\ DepthAfter(E, Len(E)) = 0

\* C10: when write_to succeeds the sink has received, for the node and then
\* depth-first for each child in order: one self-closing tag with name and
\* attributes if the node has neither children nor content; otherwise an
\* opening tag with name and attributes, one text event with the content if
\* and only if it is not empty, the children, and a closing tag with the
\* name. The tags are balanced and the last call of the sink is a flush.
C10_WriteRule ==
    IsOk(written) =>
        /\ [i \in 1..Len(Writes(sink.calls)) |-> Canonical(Writes(sink.calls)[i])]
              = Emission(self)
        /\ BalancedTags(Writes(sink.calls))
        /\ sink.calls[Len(sink.calls)] = Flush

\* A node with content and two children, one of them with content and a
\* child, has been written.
C10_Witness ==
    /\ IsOk(written)
    /\ self.content # <<>>
    /\ Len(self.childs) >= 2
    /\ \E i \in 1..Len(self.childs) :
          self.childs[i].childs # <<>> /\ self.childs[i].content # <<>>

\* every call write_to makes on a sink none of whose calls fails: what the
\* write rule asks for, and a flush at the end of the node and of each of
\* its descendants
RECURSIVE SinkCalls(_)
RECURSIVE SinkCallsAll(_)
SinkCalls(node) ==
    (IF node.childs = <<>> /\ node.content = <<>>
     THEN <<TagOf("Empty", node)>>
     ELSE <<TagOf("Start", node)>>
             \o (IF node.content # <<>> THEN <<Text(escape(node.content))>> ELSE <<>>)
             \o SinkCallsAll(node.childs)
             \o <<End(node.name)>>)
    \o <<Flush>>
SinkCallsAll(nodes) ==
    IF nodes = <<>> THEN <<>>
    ELSE SinkCalls(Head(nodes)) \o SinkCallsAll(Tail(nodes))

\* the calls the sink has received, the attributes of a tag as a set
Received == [i \in 1..Len(sink.calls) |-> Canonical(sink.calls[i])]

\* C11: when a call of the sink fails during write_to, a tag or text write
\* at any depth or a flush, write_to returns an error and the failing call
\* is the last call the sink receives; the failure of a flush is returned as
\* an error too. When no call fails write_to succeeds after all its calls.
C11_WriteFailureAborts ==
    written # NotCalled =>
        IF sink.failAt \in 1..Len(SinkCalls(self))
        THEN /\ IsErr(written)
             /\ Len(sink.calls) = sink.failAt
             /\ Received = SubSeq(SinkCalls(self), 1, sink.failAt)
        ELSE /\ IsOk(written)
             /\ Received = SinkCalls(self)

\* The flush that follows a child has failed, after the opening tag of the
\* node and the tag of the child were written.
C11_Witness ==
    /\ IsErr(written)
    /\ Len(sink.calls) >= 3
    /\ Len(sink.calls) < Len(SinkCalls(self))
    /\ sink.calls[Len(sink.calls)] = Flush

\* C12: attribute(key) returns the value the mapping holds for the key
\* exactly when has_attribute(key) is true, and otherwise fails with
\* MissingAttribute carrying the key asked for and then the name of the
\* node; has_attribute tells whether the mapping holds the key; neither call
\* changes the node.
C12_Step ==
    /\ query'.op \in {"attribute", "has_attribute"} => self' = self
    /\ query'.op = "has_attribute" =>
          query'.ret = (query'.arg \in DOMAIN self.attributes.entries)
    /\ query'.op = "attribute" =>
          IF has_attribute(self, query'.arg)
          THEN query'.ret = Ok(self.attributes.entries[query'.arg])
          ELSE /\ IsErr(query'.ret)
               /\ query'.ret.err.from.variant = "MissingAttribute"
               /\ query'.ret.err.from.fields[1] = query'.arg
               /\ query'.ret.err.from.fields[2] = self.name

C12_AttributeLookup == [][C12_Step]_vars

\* A node with attributes has been asked for a key it does not hold.
C12_Witness ==
    /\ query.op = "attribute"
    /\ IsErr(query.ret)
    /\ DOMAIN self.attributes.entries # {}

\* the places among the direct children of a node of those named name
PlacesNamed(node, name) == {i \in 1..Len(node.childs) : node.childs[i].name = name}

\* the k-th of them, in document order
PlaceNamed(node, name, k) ==
    CHOOSE i \in PlacesNamed(node, name) :
        Cardinality({j \in PlacesNamed(node, name) : j < i}) = k - 1

\* C13: child_by_name(n) returns the first direct child, in document order,
\* whose name is n, never a deeper descendant, and fails with MissingChild
\* carrying n and then the name of the node when no direct child is named
\* n; childs_by_name(n) yields exactly the direct children named n in
\* document order, none and no error when there is none, and the same
\* sequence when it is called again.
C13_Step ==
    LET n == query'.arg
        places == PlacesNamed(self, n)
    IN  /\ query'.op = "child_by_name" =>
              /\ self' = self
              /\ IF places = {}
                 THEN /\ IsErr(query'.ret)
                      /\ query'.ret.err.from.variant = "MissingChild"
                      /\ query'.ret.err.from.fields = <<n, self.name>>
                 ELSE query'.ret = Ok(self.childs[PlaceNamed(self, n, 1)])
        /\ query'.op = "childs_by_name" =>
              /\ self' = self
              /\ Len(query'.ret) = Cardinality(places)
              /\ \A k \in 1..Len(query'.ret) :
                    query'.ret[k] = self.childs[PlaceNamed(self, n, k)]
              /\ query.op = "childs_by_name" /\ query.arg = n => query'.ret = query.ret

C13_ChildLookup == [][C13_Step]_vars

\* A node has been asked for its children named b: it has one, and a child
\* of another name that has a child named b.
C13_Witness ==
    /\ query.op = "childs_by_name"
    /\ Len(query.ret) = 1
    /\ \E i \in 1..Len(self.childs) :
          /\ self.childs[i].name # query.arg
          /\ PlacesNamed(self.childs[i], query.arg) # {}

\* the last call of the chain among those of the given kinds (0: none)
LastCall(ops) ==
    LET at == {i \in 1..Len(chain.calls) : chain.calls[i].op \in ops}
    IN  IF at = {} THEN 0 ELSE CHOOSE i \in at : \A j \in at : j <= i

\* the pairs a call supplies, in the order it supplies them
Supplied(call) ==
    CASE call.op = "attribute" -> <<call.arg>>
      [] call.op = "attributes" -> call.arg
      [] OTHER -> <<>>

\* the nodes a call adds as children, in the order it adds them
Added(call) ==
    CASE call.op = "child" -> <<call.arg>>
      [] call.op = "childs" -> call.arg
      [] call.op = "option_child" -> IF call.arg.tag = "Some" THEN <<call.arg.val>> ELSE <<>>
      [] call.op = "try_child" -> IF IsOk(call.arg) THEN <<call.arg.val>> ELSE <<>>
      [] OTHER -> <<>>

RECURSIVE Concat(_, _)
Concat(F(_), calls) ==
    IF calls = <<>> THEN <<>> ELSE F(Head(calls)) \o Concat(F, Tail(calls))

\* what the chain of calls says of a builder or of the node built from it
FollowsChain(b) ==
    LET pairs == Concat(Supplied, chain.calls)
        last(key) == CHOOSE i \in 1..Len(pairs) :
                        /\ pairs[i].key = key
                        /\ \A j \in (i + 1)..Len(pairs) : pairs[j].key # key
    IN  /\ b.name = chain.calls[LastCall({"new", "name"})].arg
        /\ b.content = IF LastCall({"content"}) = 0 THEN <<>>
                       ELSE chain.calls[LastCall({"content"})].arg
        /\ DOMAIN b.attributes.entries = {pairs[i].key : i \in 1..Len(pairs)}
        /\ \A key \in DOMAIN b.attributes.entries :
              b.attributes.entries[key] = pairs[last(key)].value
        /\ b.childs = Concat(Added, chain.calls)

C14_Holds ==
    /\ Building => FollowsChain(builder.val)
    /\ builder = Moved => FollowsChain(self)
    /\ IsErr(builder) <=>
          /\ chain.calls[Len(chain.calls)].op = "try_child"
          /\ IsErr(chain.calls[Len(chain.calls)].arg)
    /\ IsErr(builder) => builder = chain.calls[Len(chain.calls)].arg

\* C14: after any chain of builder calls, build() returns a node whose name
\* and content are the last ones set, whose attributes hold for each key
\* the value of the last attribute or attributes call that supplied it, and
\* whose children are the nodes added by child, childs, option_child(Some)
\* and successful try_child calls, in call order; option_child(None) leaves
\* the builder unchanged; a try_child whose conversion fails returns that
\* error and no builder.
C14_Step ==
    /\ C14_Holds'
    /\ /\ chain' # chain
       /\ chain'.calls[Len(chain'.calls)].op = "option_child"
       /\ chain'.calls[Len(chain'.calls)].arg = None
       => builder' = builder

C14_BuilderChain == [][C14_Step]_vars

\* A node has been built after two calls that each added a child, a
\* try_child and an option_child, and the two children differ.
C14_Witness ==
    /\ builder = Moved
    /\ chain.recorded
    /\ Len(chain.calls) = 3
    /\ chain.calls[2].op = "try_child"
    /\ chain.calls[3].op = "option_child"
    /\ Len(self.childs) = 2
    /\ self.childs[1] # self.childs[2]

IsPrefix(a, b) == Len(a) <= Len(b) /\ SubSeq(b, 1, Len(a)) = a

\* C15: a node that is finished, popped by an End event and appended to its
\* parent or returned, or appended as the leaf of an Empty event, is never
\* changed by a later event of the run. Each event leaves every node that
\* stays on the stack with its name, its attributes and the children it
\* had, unchanged and in their places; content is only added, and only to
\* the node at the back of the stack; a child is only appended to the node
\* that is at the back of the stack after the event; the node an End event
\* pops is appended as it is to the node below it, or returned as it is.
C15_Step ==
    Reading /\ pos' = pos + 1 =>
        LET n == Len(node_stack)
            m == Len(node_stack')
        IN  /\ m \in {n - 1, n, n + 1}
            /\ \A i \in 1..n :
                  i <= m =>
                      /\ node_stack'[i].name = node_stack[i].name
                      /\ node_stack'[i].attributes = node_stack[i].attributes
                      /\ IsPrefix(node_stack[i].childs, node_stack'[i].childs)
                      /\ IsPrefix(node_stack[i].content, node_stack'[i].content)
                      /\ i < n => node_stack'[i].content = node_stack[i].content
                      /\ i < m => node_stack'[i].childs = node_stack[i].childs
            /\ m = n - 1 =>
                  IF m = 0
                  THEN result' = Ok(node_stack[n])
                  ELSE node_stack'[m].childs = Append(node_stack[m].childs, node_stack[n])

C15_FinishedNodesKept == [][C15_Step]_vars

\* Text has been added to a node on the stack that has a finished child
\* with content of its own.
C15_Witness ==
    /\ Reading
    /\ pos >= 1
    /\ source[pos].type = "Text"
    /\ node_stack # <<>>
    /\ back(node_stack).content # <<>>
    /\ \E i \in 1..Len(back(node_stack).childs) : back(node_stack).childs[i].content # <<>>

\* two return values of read_from are the same: equal nodes, or the same
\* error
SameReturn(a, b) == IF IsOk(a) /\ IsOk(b) THEN NodeEq(a.val, b.val) ELSE a = b

\* C16: the diagnostics do not change what read_from does: on the same
\* events, a build with feature "log" returns the same result, after taking
\* the same number of events, as a build without it.
C16_LoggingHasNoEffect ==
    Returned /\ round = 1 =>
        LET other == read_from(source, 0, <<>>, ~log)
        IN  /\ pos = other.pos
            /\ SameReturn(result, other.ret)

\* the calls a sink none of whose calls fails receives when the node is
\* written
CallsWriting(node) == write_to(node, NewWriter(0)).writer.calls

\* C17: the attributes are written in an order the mapping fixes, so that
\* writing two nodes that are equal (name, content, attribute pairs and
\* children) makes the same sequence of sink calls: here the node that was
\* written and the equal node read back from what was written.
C17_EqualNodesWriteSame ==
    round = 2 /\ IsOk(result) /\ NodeEq(result.val, self) =>
        CallsWriting(result.val) = CallsWriting(self)

\* C18: every node of a tree read_from returns, the root and each of its
\* descendants, has a name that is not empty, whatever events the source
\* delivers.
C18_NamesNotEmpty ==
    IsOk(result) => \A n \in AllNodes(result.val) : n.name # <<>>

\* C19: an End event closes the node at the back of the stack whatever
\* name it carries: with a stack that is not empty the back node is popped
\* and appended to the children of the node below it, or returned as the
\* root when there is none below, also when the name of the event is not
\* the name of the node; no error comes of an end tag of another name.
C19_Step ==
    /\ Reading
    /\ pos' = pos + 1
    /\ read_event(source, pos).type = "End"
    /\ node_stack # <<>>
    => LET n == Len(node_stack)
       IN  IF n = 1
           THEN /\ result' = Ok(node_stack[1])
                /\ node_stack' = <<>>
           ELSE /\ result' = Running
                /\ Len(node_stack') = n - 1
                /\ \A i \in 1..(n - 2) : node_stack'[i] = node_stack[i]
                /\ node_stack'[n - 1] =
                      [node_stack[n - 1] EXCEPT !.childs = Append(@, node_stack[n])]

C19_EndClosesAnyName == [][C19_Step]_vars

\* An End event of another name than the open node has closed it, and the
\* node was returned as the root.
C19_Witness ==
    /\ IsOk(result)
    /\ pos >= 2
    /\ source[pos].type = "End"
    /\ Valid(source[pos].name)
    /\ source[pos].name # result.val.name

\* the names of the Start and Empty events of E, in document order
OpenNames(E) ==
    LET opens == SelectSeq(E, IsOpen)
    IN  [k \in 1..Len(opens) |-> opens[k].name]

\* the names of the nodes of a forest, parent before children, children in
\* order
NodeNames(nodes) ==
    LET all == PreOrderAll(nodes, 0)
    IN  [k \in 1..Len(all) |-> all[k].name]

\* Start events less the End events that found a node open, among the
\* first i events of E
RECURSIVE OpenAfter(_, _)
OpenAfter(E, i) ==
    IF i = 0 THEN 0
    ELSE LET before == OpenAfter(E, i - 1)
         IN  CASE E[i].type = "Start" -> before + 1
               [] E[i].type = "End" /\ before > 0 -> before - 1
               [] OTHER -> before

\* C20: while read_from runs, every node made of a Start or Empty event it
\* has read is there once, on the stack or below a node on the stack, none
\* lost and none twice, and the stack is as deep as the number of Start
\* events read less the End events read that found the stack not empty;
\* read_from returns a node only with an empty stack, and the tree it
\* returns has one node for each Start or Empty event read.
C20_NodeConservation ==
    /\ result = Running =>
          /\ NodeNames(node_stack) = OpenNames(consumed)
          /\ Len(node_stack) = OpenAfter(consumed, Len(consumed))
    /\ IsOk(result) =>
          /\ node_stack = <<>>
          /\ NodeNames(<<result.val>>) = OpenNames(consumed)
          /\ OpenAfter(consumed, Len(consumed)) = 0

\* After an End that found the stack empty, a node was opened, a second
\* one opened inside it and closed by an End: two nodes, one on the stack.
C20_Witness ==
    /\ result = Running
    /\ pos >= 4
    /\ consumed[1].type = "End"
    /\ consumed[pos].type = "End"
    /\ Len(node_stack) = 1
    /\ node_stack[1].childs # <<>>

====
